---- MODULE Spec2Model ----
(***************************************************************************)
(* A state-machine model of the job engine of unfurl (src/unfurl/job.py,   *)
(* src/unfurl/configurator.py): Runner, Job, ConfigTask and the            *)
(* cooperative generator protocol that drives configurators.               *)
(*                                                                         *)
(* The engine is single threaded.  Its control state is a call stack of    *)
(* frames (Job.run and Job.runTask activations); its heap is the Runner,   *)
(* the jobs, the tasks and the instance graph.  One action is one step of  *)
(* the activation on top of the stack.  An exception raised in a step is   *)
(* followed to the handler that catches it: nothing between Job.runTask    *)
(* and Runner.run catches an exception raised outside task.send, so such   *)
(* an exception unwinds the whole stack to Runner.run's except clause.     *)
(***************************************************************************)
EXTENDS Integers, Sequences, FiniteSets, TLC

\* ------------------------------------------------------------------ bounds

\* Planner requests emitted per job (the planner stream is finite).
MaxRequests == 2
\* Resources added by updateResources over the life of the Runner.
MaxNewResources == 1
\* Runner.run is called again only while lastChangeId <= MaxStartChangeId.
MaxStartChangeId == 2
\* The values an expression of a Dependency matches in the instance graph, at
\* most.
MaxMatches == 2
\* The fields in which two ConfigurationSpecs under comparison differ, at most.
MaxDiffs == 2
\* The resource specs one call of updateResources is given, at most.
MaxSpecs == 3

\* Job.MAX_NESTED_SUBTASKS (job.py:313)
MAX_NESTED_SUBTASKS == 100

\* ----------------------------------------------------------- python values

\* Python's None, for string-valued and tri-state fields.
None == "None"

\* Python truthiness of the tri-state values "True" / "False" / None and of
\* Status values (an enum member is truthy; None is not).
Truthy(v) == v \notin {"False", None, ""}

\* Priority (support.py): ignore < optional < required < critical.
PriorityRank(p) ==
  CASE p = "ignore" -> 0
    [] p = "optional" -> 1
    [] p = "required" -> 2
    [] p = "critical" -> 3

\* Defaults.shouldRun (support.py), the answer of ConfigurationSpec.shouldRun.
DefaultsShouldRun == "required"

\* Sequence helpers.
Last(s) == s[Len(s)]
Front(s) == SubSeq(s, 1, Len(s) - 1)
RECURSIVE SeqRemoveFirst(_, _)
SeqRemoveFirst(s, x) ==
  IF s = <<>> THEN <<>>
  ELSE IF Head(s) = x THEN Tail(s)
  ELSE <<Head(s)>> \o SeqRemoveFirst(Tail(s), x)
SeqContains(s, x) == \E i \in 1..Len(s) : s[i] = x

\* -------------------------------------------------- configurator.py values

\* ConfiguratorResult.__init__ (configurator.py:192-210): the attributes the
\* constructor sets.  The status argument is stored as readyState; the
\* exception argument is dropped (self.exception = None).  A ConfiguratorResult
\* object has exactly these attributes.
ConfiguratorResult(applied, modified, status, result, success, outputs) ==
  [applied |-> applied, modified |-> modified, readyState |-> status,
   configChanged |-> None, result |-> result, success |-> success,
   outputs |-> outputs, exception |-> None]

\* Python attribute lookup on a plain object: AttributeError when the object
\* has no such attribute.
HasAttr(obj, name) == name \in DOMAIN obj

\* Status (support.py).
Status ==
  {"unknown", "ok", "degraded", "error", "pending", "notapplied", "notpresent",
   "absent"}

\* done that hands the status it was given to a failed result without
\* modification.
doneKeepsStatus(required, success, modified, status) ==
  LET isStatus == modified \in Status
      status1 == IF isStatus THEN modified ELSE status
      modified1 == IF isStatus THEN "True" ELSE modified
  IN  IF Truthy(success)
      THEN ConfiguratorResult("True", modified1, status1, None, success, None)
      ELSE IF Truthy(modified1)
      THEN ConfiguratorResult("True", "True",
             IF ~Truthy(status1)
             THEN (IF required THEN "error" ELSE "degraded")
             ELSE status1,
             None, success, None)
      ELSE ConfiguratorResult("False", "False", status1, None, success, None)

\* TaskView.done (configurator.py:358-397); required is task.required.
done(required, success, modified, status) ==
  LET isStatus == modified \in Status
      status1 == IF isStatus THEN modified ELSE status
      modified1 == IF isStatus THEN "True" ELSE modified
  IN  IF Truthy(success)
      THEN ConfiguratorResult("True", modified1, status1, None, success, None)
      ELSE IF Truthy(modified1)
      THEN ConfiguratorResult("True", "True",
             IF ~Truthy(status1)
             THEN (IF required THEN "error" ELSE "degraded")
             ELSE status1,
             None, success, None)
      ELSE ConfiguratorResult("False", "False", None, None, success, None)

\* ConfigurationSpec (configurator.py:104-133), the fields the engine reads.
\* The object has no attribute named required.
ConfigurationSpec(name, operation, className, workflow) ==
  [name |-> name, operation |-> operation, className |-> className,
   workflow |-> workflow]

\* ------------------------------------------------ configurators (inputs)

\* Concrete configurators are pluggable; the engine sees them through
\* shouldRun, canDryRun, canRun and the generator returned by getGenerator.
\* Each class below is one such plug-in, given by the answers of its
\* capability methods and by the script of its generator: what each
\* successive send() makes it do.
\*   result   yield task.done(...)                 raise   raise an exception
\*   other    yield a value of no known type       nest    yield createSubTask(own spec)
\*   sub      yield createSubTask(Leaf spec)       newjob  yield updateResources([new])
\*   queue    updateResources([new]), then yield task.done(...)
\*   strayjob yield JobRequest(...) built directly, never queued
\* "Spawner" yields updateResources([new]), then createSubTask(Leaf spec),
\* then task.done(...); "Discoverer" is declared for the discover workflow
\* and yields createSubTask(Leaf spec), then task.done(...); "Failer" yields
\* updateResources([new]) and raises when it is resumed.
\* "Base" is Configurator itself (configurator.py:235-265): it defines no
\* canRun method, canDryRun answers False and its run() calls
\* task.createResult, which TaskView does not define.
Classes ==
  {"Leaf", "Raiser", "Junk", "Nester", "Parent", "Creator", "Queuer", "Stray",
   "Skipper", "Decliner", "Base", "Spawner", "Discoverer", "Failer",
   "Balker"}

Script(c) ==
  CASE c = "Leaf" -> <<"result">>
    [] c = "Raiser" -> <<"raise">>
    [] c = "Junk" -> <<"other">>
    [] c = "Nester" -> <<"nest", "result">>
    [] c = "Parent" -> <<"sub", "result">>
    [] c = "Creator" -> <<"newjob", "result">>
    [] c = "Queuer" -> <<"queue">>
    [] c = "Stray" -> <<"strayjob", "result">>
    [] c = "Skipper" -> <<"result">>
    [] c = "Decliner" -> <<"result">>
    [] c = "Base" -> <<"raise">>
    [] c = "Spawner" -> <<"newjob", "sub", "result">>
    [] c = "Discoverer" -> <<"sub", "result">>
    [] c = "Failer" -> <<"newjob", "raise">>
    [] c = "Balker" -> <<"result">>
    [] OTHER -> <<>>

\* The workflow the template declares for the class's configuration: the
\* workflow argument of ConfigurationSpec (configurator.py:111).
ClassWorkflow(c) == IF c = "Discoverer" THEN "discover" ELSE "deploy"

\* Configurator.shouldRun (configurator.py:263-265) or an override: a bool or
\* a Priority, or "raise" when the method raises.
ClassShouldRun(c) ==
  CASE c = "Skipper" -> "False"
    [] c = "Leaf" -> "True"
    [] c = "Balker" -> "raise"
    [] OTHER -> DefaultsShouldRun

\* Configurator.canDryRun (configurator.py:246-251) answers False; the other
\* classes override it.
ClassCanDryRun(c) == c \notin {"Base", "Decliner"}

\* configurator.canRun(task) as called by Job.cantRunTask (job.py:558):
\* "missing" when the class has no such method (Configurator defines cantRun,
\* not canRun), else the method's answer.
ClassCanRun(c) ==
  IF c = "Base" THEN "missing" ELSE IF c = "Decliner" THEN "False" ELSE "True"

\* The arguments configurators pass to task.done: (success, modified, status).
DoneArgs ==
  {<<"True", "True", "ok">>, <<"True", None, None>>,
   <<"False", None, None>>, <<"False", "True", None>>}


\* ------------------------------------------------------------------ state

VARIABLES
  lastChangeId,     \* Runner.lastChangeId
  currentJob,       \* Runner.currentJob: a job index, 0 for None
  runnerPc,         \* where Runner.run is: "idle", "running", "except"
  committed,        \* the jobs handed to manifest.commitJob by this run
  jobs,             \* the Jobs created by the current Runner.run, by index
  tasks,            \* the ConfigTasks created by the current Runner.run
  instances,        \* the instance graph: name -> instance state
  attributeManager, \* root.attributeManager: a task index, 0 for None
  njr,              \* JobRequest objects created so far (their identities)
  stack,            \* the call stack: Job.run and Job.runTask activations
  repoDirty,        \* manifest.localEnv has a repository with uncommitted files
  runResult,        \* how the last call of Runner.run ended: "unset" while
                    \* it runs or before any call, None or "job" for the
                    \* value returned, "UnfurlError" for an exception raised
  call              \* a call of a method of Dependency or ConfigurationSpec:
                    \* the objects it is made on and what it returned

vars ==
  <<lastChangeId, currentJob, runnerPc, committed, jobs, tasks, instances,
    attributeManager, njr, stack, repoDirty, runResult, call>>

\* The whole state as one value: the methods below are functions from state
\* to state.
Cur ==
  [lastChangeId |-> lastChangeId, currentJob |-> currentJob,
   runnerPc |-> runnerPc, committed |-> committed, jobs |-> jobs,
   tasks |-> tasks, instances |-> instances,
   attributeManager |-> attributeManager, njr |-> njr, stack |-> stack,
   repoDirty |-> repoDirty, runResult |-> runResult]

Set(S) ==
  /\ lastChangeId' = S.lastChangeId
  /\ currentJob' = S.currentJob
  /\ runnerPc' = S.runnerPc
  /\ committed' = S.committed
  /\ jobs' = S.jobs
  /\ tasks' = S.tasks
  /\ instances' = S.instances
  /\ attributeManager' = S.attributeManager
  /\ njr' = S.njr
  /\ stack' = S.stack
  /\ repoDirty' = S.repoDirty
  /\ runResult' = S.runResult
  /\ call' = call

\* An instance as the manifest loads it: no operation has touched it.
\* Change pointers hold change-ids, 0 for None.
NewInstance ==
  [localStatus |-> "unknown", lastConfigChange |-> 0, lastStateChange |-> 0]

\* Runner.__init__ (job.py:694-698), on a manifest with one instance (named 1)
\* and lastChangeId 0.
RunnerInit ==
  /\ lastChangeId = 0
  /\ currentJob = 0
  /\ runnerPc = "idle"
  /\ committed = <<>>
  /\ jobs = <<>>
  /\ tasks = <<>>
  /\ instances = <<NewInstance>>
  /\ attributeManager = 0
  /\ njr = 0
  /\ stack = <<>>
  /\ repoDirty = FALSE
  /\ runResult = "unset"

\* No method of Dependency or ConfigurationSpec is under call while the
\* Runner works.
NoCall == [op |-> "none"]

Init == RunnerInit /\ call = NoCall

\* ----------------------------------------------------------------- Runner

\* incrementChangeId without the increment.
incrementChangeIdStuck(S) == S

\* Runner.incrementChangeId (job.py:726-728): the returned value is the new
\* lastChangeId.
incrementChangeId(S) == [S EXCEPT !.lastChangeId = @ + 1]

\* An exception that is dropped where it is raised: the frames stay as they
\* are and the loop of runTask goes on.
RaiseSwallowed(S) == S

\* An exception that no handler below Runner.run catches: the stack unwinds
\* to the except clause of Runner.run (job.py:751).
Raise(S) == [S EXCEPT !.stack = <<>>, !.runnerPc = "except"]

\* collections.OrderedDict.__setitem__: a known key keeps its place and gets
\* the new value, a new key goes last.
OrderedDictSet(d, key, value) ==
  IF \E i \in 1..Len(d) : d[i].key = key
  THEN [i \in 1..Len(d) |->
          IF d[i].key = key THEN [key |-> key, task |-> value] ELSE d[i]]
  ELSE Append(d, [key |-> key, task |-> value])

\* The key Runner.addWork formats (job.py:701-706).  Equal tuples format to
\* equal strings.
WorkKey(task) ==
  <<task.target, task.configSpec.name, task.configSpec.operation,
    task.changeId>>

\* Runner.addWork (job.py:700-708).  With currentJob None the first
\* assignment raises.
addWork(S, t) ==
  LET key == WorkKey(S.tasks[t])
      j == S.tasks[t].job
  IN  IF S.currentJob = 0
      THEN [S |-> S, raised |-> TRUE]
      ELSE LET S1 == [S EXCEPT !.jobs[S.currentJob].workDone =
                                 OrderedDictSet(@, key, t)]
           IN  [S |-> [S1 EXCEPT !.jobs[j].workDone = OrderedDictSet(@, key, t)],
                raised |-> FALSE]

\* UnfurlTaskError(task, message, True) (util.py): the error is attached to
\* the task.
UnfurlTaskError(S, t, message) ==
  [S EXCEPT !.tasks[t].errors = Append(@, message)]

\* ------------------------------------------------------------- JobOptions

\* JobOptions.defaults (job.py:50-76), the options the engine reads; parentJob
\* is a job index, 0 for None; instance is a name, 0 for None; instances is a
\* list of names, empty for None (both are falsy).
JobOptionsDefaults ==
  [parentJob |-> 0, instance |-> 0, instances |-> <<>>, add |-> TRUE,
   update |-> TRUE, repair |-> "error", upgrade |-> FALSE, all |-> FALSE,
   readonly |-> FALSE, dryrun |-> FALSE, planOnly |-> FALSE,
   requiredOnly |-> FALSE, commit |-> TRUE, dirty |-> FALSE,
   workflow |-> "deploy"]

\* A name no instance of the graph has.
NotInGraph == 9

\* The options Runner.run is called with.
RootOptions ==
  {JobOptionsDefaults,
   [JobOptionsDefaults EXCEPT !.planOnly = TRUE],
   [JobOptionsDefaults EXCEPT !.dryrun = TRUE],
   [JobOptionsDefaults EXCEPT !.readonly = TRUE],
   [JobOptionsDefaults EXCEPT !.workflow = "bogus"],
   [JobOptionsDefaults EXCEPT !.requiredOnly = TRUE],
   [JobOptionsDefaults EXCEPT !.instance = NotInGraph]}

\* Job.__init__ (job.py:315-331): a job record.  The job takes a change-id
\* from the runner when it is created.  emitted counts the requests its
\* planner has emitted and returned tells that Job.run returned; request and
\* spawner record how a child job came about: the JobRequest it runs and the
\* task whose generator yielded it (0 for a request taken from the queue).
Job(S, jobOptions) ==
  LET S1 == incrementChangeId(S)
      job == [changeId |-> S1.lastChangeId,
              parentJob |-> jobOptions.parentJob,
              parentId |-> IF jobOptions.parentJob # 0
                           THEN S.jobs[jobOptions.parentJob].changeId ELSE 0,
              jobOptions |-> jobOptions,
              dryRun |-> jobOptions.dryrun,
              jobRequestQueue |-> <<>>,
              unexpectedAbort |-> FALSE,
              localStatus |-> "ok",
              workDone |-> <<>>,
              emitted |-> 0,
              returned |-> FALSE,
              request |-> [id |-> 0, instances |-> <<>>, errors |-> <<>>],
              spawner |-> 0]
  IN  [S1 EXCEPT !.jobs = Append(@, job)]

\* Plan.getPlanClassForWorkflow (plan.py): the plan class of a workflow, None
\* for a workflow that has none.
getPlanClassForWorkflow(workflow) ==
  IF workflow \in {"deploy", "undeploy", "discover"} THEN "Plan" ELSE None

\* Runner.createJob raises UnfurlError("unknown workflow") (job.py:719-721).
createJobRaises(jobOptions) ==
  getPlanClassForWorkflow(jobOptions.workflow) = None

\* Runner.createJob (job.py:714-724) when the workflow has a plan class; the
\* new job is the last of S.jobs.
createJob(S, jobOptions) == Job(S, jobOptions)

\* ------------------------------------------------------------- ConfigTask

\* A change dict of the attribute manager (support.py): the value written
\* for each (instance, attribute) key.
EmptyChanges == [k \in {} |-> 0]

\* mergeDicts(base, overrides) (merge.py): the keys of both, a key of both
\* taking the value it has in overrides.
mergeDicts(base, overrides) ==
  [k \in DOMAIN base \cup DOMAIN overrides |->
     IF k \in DOMAIN overrides THEN overrides[k] ELSE base[k]]

\* The attributes a configurator sets on its target in the n-th step of its
\* generator: "a" in every step, "b" in the first one only.
StepWrites(target, n) ==
  IF n = 1 THEN (<<target, "a">> :> n) @@ (<<target, "b">> :> n)
  ELSE (<<target, "a">> :> n)

\* Setting attributes of an instance (runtime.py, support.py): the writes
\* are staged in the attribute manager of the instance's root, which is the
\* task that was created last (job.py:121).
AttributeManagerSet(S, writes) ==
  [S EXCEPT !.tasks[S.attributeManager].staged = mergeDicts(@, writes)]

\* AttributeManager.commitChanges (support.py): the staged changes are
\* returned and the staging area is cleared.
AttributeManagerCommitChanges(S, t) ==
  [S |-> [S EXCEPT !.tasks[t].staged = EmptyChanges],
   changes |-> S.tasks[t].staged]

\* ResourceChanges.updateChanges and getAttributeChanges (support.py): the
\* changes recorded for the task with the change-id they were given, and
\* the recorded changes of one instance.
updateChanges(S, t, changes, changeId) ==
  [S EXCEPT !.tasks[t].recorded =
              <<[changes |-> changes, changeId |-> changeId]>>]

getAttributeChanges(task, key) ==
  IF task.recorded = <<>> THEN {}
  ELSE {k \in DOMAIN task.recorded[1].changes : k[1] = key}

\* A task whose changeId is left unset (0) when it is created.
ProvisionalChangeIdUnset(S, j, parentId) == 0

\* self.parentId = parentId or job.changeId (job.py:105): the change-id a
\* task holds until it is finalized; parentId 0 is None.
ProvisionalChangeId(S, j, parentId) ==
  IF parentId # 0 THEN parentId ELSE S.jobs[j].changeId

\* ConfigTask.__init__ (job.py:101-121); parentId 0 is None.  The new task is
\* the last of S.tasks and becomes the root's attribute manager.
\* nfinished counts the calls of finished() on the task; spawner is the task
\* whose generator yielded the TaskRequest this task was created for (0 for a
\* planner request).
ConfigTask(S, j, configSpec, target, parentId, reason) ==
  LET pid == ProvisionalChangeId(S, j, parentId)
      task == [job |-> j, configSpec |-> configSpec, target |-> target,
               reason |-> reason, parentId |-> pid, changeId |-> pid,
               dryRun |-> S.jobs[j].dryRun, configurator |-> FALSE,
               generator |-> None, sent |-> 0, changeList |-> <<>>,
               result |-> <<>>, outputs |-> None, localStatus |-> None,
               priority |-> None, errors |-> <<>>, nfinished |-> 0,
               spawner |-> 0, staged |-> EmptyChanges, final |-> <<>>,
               merged |-> <<>>, recorded |-> <<>>]
  IN  [S EXCEPT !.tasks = Append(@, task),
                !.attributeManager = Len(S.tasks) + 1]

\* Job.createTask (job.py:333-350): the configurator is created with the
\* task; a class that cannot be loaded leaves an error on the task.
createTask(S, j, configSpec, target, parentId, reason) ==
  LET S1 == ConfigTask(S, j, configSpec, target, parentId, reason)
      t == Len(S1.tasks)
  IN  IF configSpec.className \in Classes
      THEN [S1 EXCEPT !.tasks[t].configurator = TRUE]
      ELSE UnfurlTaskError(S1, t, "unable to create task")

\* The priority property of ConfigTask (job.py:123-140).
TaskPriority(task) ==
  IF task.priority = None THEN DefaultsShouldRun ELSE task.priority

\* task.required (runtime.py): the task's priority is required.
TaskRequired(task) == TaskPriority(task) = "required"

\* Job.filterConfig (job.py:352-362): the reason the request is dropped, None
\* when it passes, "AttributeError" when reading config.required raises
\* (job.py:356).
filterConfig(opts, config, target) ==
  IF opts.readonly /\ config.workflow # "discover" THEN "read only"
  ELSE IF opts.requiredOnly /\ ~HasAttr(config, "required")
  THEN "AttributeError"
  ELSE IF opts.requiredOnly /\ ~config.required THEN "required"
  ELSE IF opts.instance # 0 /\ target # opts.instance THEN "instance"
  ELSE IF opts.instances # <<>> /\ ~SeqContains(opts.instances, target)
  THEN "instances"
  ELSE None

\* Job.shouldRunTask (job.py:491-517).
shouldRunTask(S, t) ==
  LET task == S.tasks[t]
      answer == IF task.configurator
                THEN ClassShouldRun(task.configSpec.className)
                ELSE TaskPriority(task)
      priority == IF answer = "True" THEN "required"
                  ELSE IF answer = "False" THEN "ignore"
                  ELSE answer
      S1 == IF priority # TaskPriority(task)
            THEN [S EXCEPT !.tasks[t].priority = priority] ELSE S
  IN  IF answer = "raise"
      THEN [S |-> UnfurlTaskError(S, t, "shouldRun failed unexpectedly"),
            run |-> FALSE]
      ELSE [S |-> S1, run |-> PriorityRank(priority) > PriorityRank("ignore")]

\* What the checks of Job.cantRunTask find for a task: whether the task has
\* errors, whether it is a dry run and what canDryRun answers, whether a
\* required dependency of the target is not operational, whether the inputs
\* and the preconditions validate, and what configurator.canRun answers:
\* True or False, an error message, or "missing" when the configurator has no
\* such method (AttributeError).  "raise" is a check that raises.
CheckOutcomes ==
  [errors : BOOLEAN, dryRun : BOOLEAN, canDryRun : {"True", "False", "raise"},
   missing : {"none", "some", "raise"}, inputs : {"valid", "invalid"},
   preconditions : {"valid", "invalid"},
   canRun : {"True", "False", "message", "missing"}]

\* The body of cantRunTask that takes any answer of canRun but False as
\* permission.
cantRunTaskChecksTruthy(c) ==
  IF c.errors
  THEN [canRun |-> FALSE, reason |-> "could not create task", error |-> FALSE]
  ELSE IF c.dryRun /\ c.canDryRun = "False"
  THEN [canRun |-> FALSE, reason |-> "dry run not supported", error |-> FALSE]
  ELSE IF (c.dryRun /\ c.canDryRun = "raise") \/ c.missing = "raise"
  THEN [canRun |-> FALSE, reason |-> "unexpected exception in cantRunTask",
        error |-> TRUE]
  ELSE IF c.missing = "some"
  THEN [canRun |-> FALSE, reason |-> "missing required dependencies",
        error |-> FALSE]
  ELSE IF c.inputs = "invalid"
  THEN [canRun |-> FALSE, reason |-> "invalid inputs", error |-> FALSE]
  ELSE IF c.preconditions = "invalid"
  THEN [canRun |-> FALSE, reason |-> "invalid preconditions", error |-> FALSE]
  ELSE IF c.canRun = "missing"
  THEN [canRun |-> FALSE, reason |-> "unexpected exception in cantRunTask",
        error |-> TRUE]
  ELSE IF c.canRun = "False"
  THEN [canRun |-> FALSE, reason |-> "configurator declined", error |-> FALSE]
  ELSE [canRun |-> TRUE, reason |-> "", error |-> FALSE]

\* The body of Job.cantRunTask (job.py:527-572) on the outcomes of its
\* checks: canRun, the reason when it is false, and whether the except
\* clause recorded a task error.  The method returns False when canRun, else
\* "could not run: " + reason.
cantRunTaskChecks(c) ==
  IF c.errors
  THEN [canRun |-> FALSE, reason |-> "could not create task", error |-> FALSE]
  ELSE IF c.dryRun /\ c.canDryRun = "False"
  THEN [canRun |-> FALSE, reason |-> "dry run not supported", error |-> FALSE]
  ELSE IF (c.dryRun /\ c.canDryRun = "raise") \/ c.missing = "raise"
  THEN [canRun |-> FALSE, reason |-> "unexpected exception in cantRunTask",
        error |-> TRUE]
  ELSE IF c.missing = "some"
  THEN [canRun |-> FALSE, reason |-> "missing required dependencies",
        error |-> FALSE]
  ELSE IF c.inputs = "invalid"
  THEN [canRun |-> FALSE, reason |-> "invalid inputs", error |-> FALSE]
  ELSE IF c.preconditions = "invalid"
  THEN [canRun |-> FALSE, reason |-> "invalid preconditions", error |-> FALSE]
  ELSE IF c.canRun = "missing"
  THEN [canRun |-> FALSE, reason |-> "unexpected exception in cantRunTask",
        error |-> TRUE]
  ELSE IF c.canRun # "True"
  THEN [canRun |-> FALSE, reason |-> "configurator declined", error |-> FALSE]
  ELSE [canRun |-> TRUE, reason |-> "", error |-> FALSE]

\* cantRunTask that does not look at the errors of the task.
cantRunTaskIgnoresErrors(S, t) ==
  LET task == S.tasks[t]
      c == task.configSpec.className
  IN  IF task.dryRun /\ ~ClassCanDryRun(c)
      THEN [S |-> S, canRun |-> FALSE, reason |-> "dry run not supported"]
      ELSE IF ClassCanRun(c) # "True"
      THEN [S |-> S, canRun |-> FALSE, reason |-> "configurator declined"]
      ELSE [S |-> S, canRun |-> TRUE, reason |-> ""]

\* Job.cantRunTask (job.py:519-572) for a task of the Runner: canRun, and
\* the reason when it is false.  The targets have no dependencies and the
\* specs no input schema and no preconditions.
cantRunTask(S, t) ==
  LET task == S.tasks[t]
      c == task.configSpec.className
      r == cantRunTaskChecks(
             [errors |-> task.errors # <<>>, dryRun |-> task.dryRun,
              canDryRun |-> IF ClassCanDryRun(c) THEN "True" ELSE "False",
              missing |-> "none", inputs |-> "valid",
              preconditions |-> "valid", canRun |-> ClassCanRun(c)])
  IN  [S |-> IF r.error
             THEN UnfurlTaskError(S, t, "cantRunTask failed unexpectedly")
             ELSE S,
       canRun |-> r.canRun, reason |-> r.reason]

\* ConfigTask._updateStatus (job.py:166-184).  The method reads
\* result.status; an object without that attribute raises AttributeError.
\* getattr(result, "status") is written result.readyState below only under
\* HasAttr's guard, for an object that carried the attribute.
ResultStatus(result) == IF HasAttr(result, "status") THEN result.status ELSE None

\* A read of result.status that never raises (the attribute reads as None
\* when the object lacks it).
StatusNeverRaises(result) == FALSE

\* Whether reading result.status raises.
StatusRaises(result) == ~HasAttr(result, "status")

_updateStatus(S, t, result) ==
  LET task == S.tasks[t]
  IN  IF StatusRaises(result)
      THEN [S |-> S, raised |-> TRUE]
      ELSE IF ResultStatus(result) # None
      THEN [S |-> [S EXCEPT !.instances[task.target].localStatus =
                              ResultStatus(result)],
            raised |-> FALSE]
      ELSE IF ~Truthy(result.success)
      THEN IF Truthy(result.modified)
           THEN [S |-> [S EXCEPT !.instances[task.target].localStatus =
                                   IF TaskRequired(task) THEN "error"
                                   ELSE "degraded"],
                 raised |-> FALSE]
           ELSE IF result.modified = None
           THEN [S |-> [S EXCEPT !.instances[task.target].localStatus =
                                   "unknown"],
                 raised |-> FALSE]
           ELSE [S |-> S, raised |-> FALSE]
      ELSE [S |-> S, raised |-> FALSE]

\* ConfigTask._updateLastChange (job.py:186-198); target.lastChange is None
\* while neither change pointer is set.
_updateLastChange(S, t, result) ==
  LET task == S.tasks[t]
      inst == S.instances[task.target]
      S1 == IF inst.lastConfigChange = 0 /\ inst.lastStateChange = 0
            THEN [S EXCEPT !.instances[task.target].lastConfigChange =
                             task.changeId]
            ELSE S
  IN  IF Truthy(result.modified)
         \/ getAttributeChanges(task, task.target) # {}
      THEN [S1 EXCEPT !.instances[task.target].lastStateChange = task.changeId]
      ELSE S1

\* The loop of finished taking the snapshots from the last to the first.
RECURSIVE MergeChangeListLastFirst(_)
MergeChangeListLastFirst(changes) ==
  IF Len(changes) = 1 THEN changes[1]
  ELSE mergeDicts(Last(changes), MergeChangeListLastFirst(Front(changes)))

\* The loop of finished (job.py:216-219): the snapshots of the change list
\* merged from the first to the last.
RECURSIVE MergeChangeList(_)
MergeChangeList(changes) ==
  IF Len(changes) = 1 THEN changes[1]
  ELSE mergeDicts(MergeChangeList(Front(changes)), Last(changes))

\* finished() that takes a new change-id from the runner and does not store
\* it on the task.
finishedKeepsChangeId(S, t, result) ==
  LET S1 == incrementChangeId(S)
      S2 == [S1 EXCEPT !.tasks[t].generator = None,
                       !.tasks[t].outputs = result.outputs,
                       !.tasks[t].final = <<result>>,
                       !.tasks[t].nfinished = @ + 1]
      S2b == IF S2.tasks[t].changeList # <<>>
             THEN updateChanges([S2 EXCEPT !.tasks[t].changeList = <<>>,
                                           !.tasks[t].merged =
                                             S2.tasks[t].changeList], t,
                                MergeChangeList(S2.tasks[t].changeList),
                                S2.tasks[t].changeId)
             ELSE S2
      u == _updateStatus(S2b, t, result)
      S3 == _updateLastChange(u.S, t, result)
  IN  IF u.raised
      THEN [S |-> u.S, raised |-> TRUE]
      ELSE [S |-> [S3 EXCEPT !.tasks[t].result = <<result>>,
                             !.tasks[t].localStatus =
                               IF Truthy(result.success) THEN "ok"
                               ELSE "error"],
            raised |-> FALSE]

\* ConfigTask.finished (job.py:200-233).  The generator is closed, the
\* outputs and the new change-id are set and the change list is merged
\* (emptied) and recorded before _updateStatus runs; what follows
\* _updateStatus runs only when it returns.  The field final keeps the result
\* the call was given and the field merged the snapshots it merged.
finished(S, t, result) ==
  LET S1 == incrementChangeId(S)
      S2 == [S1 EXCEPT !.tasks[t].generator = None,
                       !.tasks[t].outputs = result.outputs,
                       !.tasks[t].changeId = S1.lastChangeId,
                       !.tasks[t].final = <<result>>,
                       !.tasks[t].nfinished = @ + 1]
      S2b == IF S2.tasks[t].changeList # <<>>
             THEN updateChanges([S2 EXCEPT !.tasks[t].changeList = <<>>,
                                           !.tasks[t].merged =
                                             S2.tasks[t].changeList], t,
                                MergeChangeList(S2.tasks[t].changeList),
                                S2.tasks[t].changeId)
             ELSE S2
      u == _updateStatus(S2b, t, result)
      S3 == _updateLastChange(u.S, t, result)
  IN  IF u.raised
      THEN [S |-> u.S, raised |-> TRUE]
      ELSE [S |-> [S3 EXCEPT !.tasks[t].result = <<result>>,
                             !.tasks[t].localStatus =
                               IF Truthy(result.success) THEN "ok"
                               ELSE "error"],
            raised |-> FALSE]

\* ------------------------------------------------------ the call protocol

\* A value passed between activations: None (<<>>), a task or a job.
TaskValue(t) == <<[kind |-> "task", id |-> t]>>
JobValue(j) == <<[kind |-> "job", id |-> j]>>

\* Job.shouldAbort (job.py:574-575).
shouldAbort(S, value) == FALSE

\* The caller on top of the stack receives the value a call returned.  In
\* Job.runTask it becomes `change` (job.py:678, 681); in Job.run it is
\* `result` or `job`, and the loop goes on unless shouldAbort (job.py:445,
\* 455).
Deliver(S, value) ==
  LET n == Len(S.stack)
  IN  IF S.stack[n].kind = "task"
      THEN [S EXCEPT !.stack[n].change = value]
      ELSE IF shouldAbort(S, value)
      THEN [S EXCEPT !.stack[n].pc = "return"]
      ELSE S

\* Job.runTask returns the task (job.py:658, 667, 687, 690): its activation
\* is popped.
ReturnTask(S, t) == Deliver([S EXCEPT !.stack = Front(@)], TaskValue(t))

\* Job.run returns (job.py:446, 456, 477).  The root job returns into
\* Runner.run (job.py:756-757), a child job into runJobRequest (job.py:488).
ReturnJob(S, j) ==
  LET S1 == [S EXCEPT !.stack = Front(@), !.jobs[j].returned = TRUE]
  IN  IF S1.stack = <<>>
      THEN [S1 EXCEPT !.currentJob = 0,
                      !.committed = Append(@, j),
                      !.runnerPc = "idle",
                      !.runResult = "job"]
      ELSE Deliver(S1, JobValue(j))

\* Job.runTask up to the first send (job.py:656-661): the task is finalized
\* as failed when it cannot run; else its generator is started and the
\* activation waits at task.send.
runTask(S, j, t, depth) ==
  LET c == cantRunTask(S, t)
      f == finished(c.S, t,
             ConfiguratorResult("False", "False", None, c.reason, None, None))
      frame == [kind |-> "task", job |-> j, id |-> t, depth |-> depth,
                pc |-> "send", change |-> <<>>]
  IN  IF ~c.canRun
      THEN IF f.raised THEN Raise(f.S) ELSE Deliver(f.S, TaskValue(t))
      ELSE [c.S EXCEPT !.tasks[t].generator = "live",
                       !.stack = Append(@, frame)]

\* runJobRequest that creates the child job with the default options and the
\* parent job only.
runJobRequestDefaults(S, j, jobRequest, spawner) ==
  LET queue == S.jobs[j].jobRequestQueue
      S1 == [S EXCEPT !.jobs[j].jobRequestQueue =
                        SeqRemoveFirst(@, jobRequest)]
      jobOptions == [JobOptionsDefaults EXCEPT !.parentJob = j]
      S2 == LET C == createJob(S1, jobOptions)
            IN  [C EXCEPT !.jobs[Len(C.jobs)].request = jobRequest,
                          !.jobs[Len(C.jobs)].spawner = spawner]
      frame == [kind |-> "job", job |-> Len(S2.jobs), id |-> Len(S2.jobs),
                depth |-> 0, pc |-> "plan", change |-> <<>>]
  IN  IF ~SeqContains(queue, jobRequest)
      THEN Raise(S)
      ELSE [S2 EXCEPT !.stack = Append(@, frame)]

\* Job.runJobRequest (job.py:479-489) up to childJob.run(): list.remove
\* raises ValueError when the request is not queued.
runJobRequest(S, j, jobRequest, spawner) ==
  LET queue == S.jobs[j].jobRequestQueue
      S1 == [S EXCEPT !.jobs[j].jobRequestQueue =
                        SeqRemoveFirst(@, jobRequest)]
      jobOptions == [JobOptionsDefaults EXCEPT
                       !.parentJob = j, !.repair = "none", !.all = TRUE,
                       !.instances = jobRequest.instances]
      S2 == LET C == createJob(S1, jobOptions)
            IN  [C EXCEPT !.jobs[Len(C.jobs)].request = jobRequest,
                          !.jobs[Len(C.jobs)].spawner = spawner]
      frame == [kind |-> "job", job |-> Len(S2.jobs), id |-> Len(S2.jobs),
                depth |-> 0, pc |-> "plan", change |-> <<>>]
  IN  IF ~SeqContains(queue, jobRequest)
      THEN Raise(S)
      ELSE [S2 EXCEPT !.stack = Append(@, frame)]

\* No JobRequest: the None updateResources returns.
NoJobRequest == [id |-> 0, instances |-> <<>>, errors |-> <<>>]

\* The resource specs updateResources is given: "new" names a resource that
\* does not exist yet and loads, "existing" names an instance of the graph,
\* "bad" fails to load (or has no name).
ResourceSpecs ==
  UNION {[1..n -> {"new", "existing", "bad"}] : n \in 0..MaxSpecs}

\* The loop of TaskView.updateResources over the specs (configurator.py:
\* 524-575) on a graph of n instances: the new resources by name, the
\* UnfurlAddingResourceErrors by the index of their spec, and the specs that
\* updated an existing instance.
loadResources(specs, n) ==
  LET loop[i \in 0..Len(specs)] ==
        IF i = 0
        THEN [newResources |-> <<>>, errors |-> <<>>, updated |-> <<>>]
        ELSE LET acc == loop[i - 1]
             IN  CASE specs[i] = "existing" ->
                        [acc EXCEPT !.updated = Append(@, i)]
                   [] specs[i] = "bad" ->
                        [acc EXCEPT !.errors = Append(@, i)]
                   [] OTHER ->
                        [acc EXCEPT !.newResources =
                           Append(@, n + Len(acc.newResources) + 1)]
  IN  loop[Len(specs)]

\* The end of updateResources that makes a JobRequest whenever there is
\* anything to report, a new resource or an error.
jobRequestForErrorsToo(loaded, id, queue) ==
  LET jobRequest == [id |-> id, instances |-> loaded.newResources,
                     errors |-> loaded.errors]
  IN  IF loaded.newResources # <<>> \/ loaded.errors # <<>>
      THEN [returned |-> TRUE, jobRequest |-> jobRequest,
            jobRequestQueue |-> Append(queue, jobRequest)]
      ELSE [returned |-> FALSE, jobRequest |-> NoJobRequest,
            jobRequestQueue |-> queue]

\* The end of TaskView.updateResources (configurator.py:578-587): with a new
\* resource, JobRequest(newResources, errors) is appended to the queue of the
\* task's job and returned; else None is returned.  id tells JobRequest
\* objects apart.
jobRequestFor(loaded, id, queue) ==
  LET jobRequest == [id |-> id, instances |-> loaded.newResources,
                     errors |-> loaded.errors]
  IN  IF loaded.newResources # <<>>
      THEN [returned |-> TRUE, jobRequest |-> jobRequest,
            jobRequestQueue |-> Append(queue, jobRequest)]
      ELSE [returned |-> FALSE, jobRequest |-> NoJobRequest,
            jobRequestQueue |-> queue]

\* TaskView.updateResources (configurator.py:496-587) with one spec naming a
\* resource that does not exist yet: the resource is loaded into the graph
\* and a JobRequest for it is queued on the task's job.
updateResources(S, t) ==
  LET j == S.tasks[t].job
      loaded == loadResources(<<"new">>, Len(S.instances))
      r == jobRequestFor(loaded, S.njr + 1, S.jobs[j].jobRequestQueue)
  IN  [S |-> [S EXCEPT !.instances = Append(@, NewInstance),
                       !.njr = @ + 1,
                       !.jobs[j].jobRequestQueue = r.jobRequestQueue],
       jobRequest |-> r.jobRequest]

\* ---------------------------------------------------------- generator steps

\* What a generator step produces: an exception ("raise") or a yielded
\* TaskRequest, JobRequest, ConfiguratorResult or other value.
NoSpec == ConfigurationSpec(None, None, None, None)
NoResult == ConfiguratorResult(None, None, None, None, None, None)
Yield(kind, configSpec, target, jobRequest, result) ==
  [kind |-> kind, configSpec |-> configSpec, target |-> target,
   jobRequest |-> jobRequest, result |-> result]

\* The results task.done can give the task's configurator.
DoneResults(task) ==
  {Yield("ConfiguratorResult", NoSpec, 0, NoJobRequest,
         done(TaskRequired(task), a[1], a[2], a[3])) : a \in DoneArgs}

\* generator.send(change) on a live generator of the task's configurator:
\* the possible (state, value) pairs.  A generator that ran off the end of
\* its script raises StopIteration.
GeneratorSend(S, t) ==
  LET task == S.tasks[t]
      script == Script(task.configSpec.className)
      step == IF task.sent + 1 <= Len(script)
              THEN script[task.sent + 1] ELSE "raise"
      S1 == AttributeManagerSet([S EXCEPT !.tasks[t].sent = @ + 1],
                                StepWrites(task.target, task.sent + 1))
      u == updateResources(S1, t)
      room == Len(S.instances) <= MaxNewResources
  IN  CASE step = "result" ->
             {[S |-> S1, value |-> v] : v \in DoneResults(task)}
        [] step = "raise" ->
             {[S |-> S1,
               value |-> Yield("raise", NoSpec, 0, NoJobRequest, NoResult)]}
        [] step = "other" ->
             {[S |-> S1,
               value |-> Yield("other", NoSpec, 0, NoJobRequest, NoResult)]}
        [] step = "nest" ->
             {[S |-> S1,
               value |-> Yield("TaskRequest", task.configSpec, task.target,
                               NoJobRequest, NoResult)]}
        [] step = "sub" ->
             {[S |-> S1,
               value |-> Yield("TaskRequest",
                               ConfigurationSpec("Leaf", "create", "Leaf",
                                                 ClassWorkflow("Leaf")),
                               task.target, NoJobRequest, NoResult)]}
        [] step = "newjob" ->
             IF room
             THEN {[S |-> u.S,
                    value |-> Yield("JobRequest", NoSpec, 0, u.jobRequest,
                                    NoResult)]}
             ELSE {}
        [] step = "queue" ->
             IF room
             THEN {[S |-> u.S, value |-> v] : v \in DoneResults(task)}
             ELSE {}
        [] step = "strayjob" ->
             {[S |-> [S1 EXCEPT !.njr = @ + 1],
               value |-> Yield("JobRequest", NoSpec, 0,
                               [id |-> S.njr + 1,
                                instances |-> <<task.target>>,
                                errors |-> <<>>],
                               NoResult)]}

\* ConfigTask.commitChanges (job.py:235-242): the attribute manager's staged
\* changes become one more snapshot of the change list.
commitChanges(S, t) ==
  LET c == AttributeManagerCommitChanges(S, t)
  IN  [c.S EXCEPT !.tasks[t].changeList = Append(@, c.changes)]

\* ConfigTask.send (job.py:152-161): the possible (state, value) pairs.  With
\* no generator (self.generator is None) the call raises; the changes are
\* committed whether or not the step raised.
send(S, t, change) ==
  IF S.tasks[t].generator = None
  THEN {[S |-> commitChanges(S, t),
         value |-> Yield("raise", NoSpec, 0, NoJobRequest, NoResult)]}
  ELSE {[S |-> commitChanges(g.S, t), value |-> g.value] :
          g \in GeneratorSend(S, t)}

\* The body of the loop of Job.runTask after task.send (job.py:665-690), for
\* the activation on top of the stack.
Dispatch(S, value) ==
  LET frame == Last(S.stack)
      t == frame.id
      j == frame.job
      failed == ConfiguratorResult("False", None, "error", None, None, None)
      fRaise == finished(UnfurlTaskError(S, t, "configurator.run failed"),
                         t, failed)
      fLimit == finished(UnfurlTaskError(S, t, "too many subtasks spawned"), t,
                         ConfiguratorResult("False", None, None, None, None,
                                            None))
      fOther == finished(UnfurlTaskError(S, t,
                           "unexpected result from configurator"), t, failed)
      fDone == finished(S, t, value.result)
      S1 == LET C == createTask(S, j, value.configSpec, value.target,
                                S.jobs[j].changeId, None)
            IN  [C EXCEPT !.tasks[Len(C.tasks)].spawner = t]
      subtask == Len(S1.tasks)
      a == addWork(S1, subtask)
  IN  CASE value.kind = "raise" ->
             IF fRaise.raised THEN Raise(fRaise.S) ELSE ReturnTask(fRaise.S, t)
        [] value.kind = "TaskRequest" ->
             IF frame.depth >= MAX_NESTED_SUBTASKS
             THEN IF fLimit.raised THEN Raise(fLimit.S)
                  ELSE Deliver(fLimit.S, TaskValue(t))
             ELSE IF a.raised THEN Raise(a.S)
             ELSE runTask(a.S, j, subtask, frame.depth + 1)
        [] value.kind = "JobRequest" ->
             runJobRequest(S, j, value.jobRequest, t)
        [] value.kind = "ConfiguratorResult" ->
             IF fDone.raised THEN Raise(fDone.S) ELSE ReturnTask(fDone.S, t)
        [] OTHER ->
             IF fOther.raised THEN Raise(fOther.S) ELSE ReturnTask(fOther.S, t)

\* ---------------------------------------------------------------- actions

\* The instances a planner's requests address: the first instance of the
\* graph and the one added last.
PlanTargets(S) == {1, Len(S.instances)}

\* The requests a planner can emit (plan.py): a TaskRequest for one of the
\* configurator classes on an instance of the graph, or a request that
\* carries an error, whose configSpec holds the message as its className.
\* The class that nests down to MAX_NESTED_SUBTASKS and the class whose
\* shouldRun raises are requested as the first task of a run only.
PlanRequests(S) ==
  {[configSpec |-> ConfigurationSpec(c, "create", c, ClassWorkflow(c)),
    target |-> i,
    error |-> FALSE] :
     c \in {k \in Classes :
              /\ k \in {"Creator", "Queuer", "Spawner", "Failer"}
                   => Len(S.instances) <= MaxNewResources
              /\ k \in {"Nester", "Balker"} => S.tasks = <<>>},
     i \in PlanTargets(S)}
  \cup
  {[configSpec |-> ConfigurationSpec("failed", "create", "spec error",
                                     "deploy"),
    target |-> i, error |-> TRUE] : i \in PlanTargets(S)}

\* A gate that lets every call through.
DirtyGateOpen(S, jobOptions) == FALSE

\* The gate of Runner.run on uncommitted files (job.py:738-745).
DirtyGate(S, jobOptions) ==
  jobOptions.commit /\ ~jobOptions.dirty /\ S.repoDirty

\* Runner.run (job.py:730-750) up to job.run().  The call returns None
\* behind the gate on uncommitted files; it raises when createJob raises,
\* which no handler of Runner.run catches (the inner try starts after
\* createJob, job.py:746-748); else the job is created and made the current
\* job.  The jobs and tasks of an earlier run are no longer reachable from the
\* Runner once a job is created: the indices start again (attributeManager 0
\* is then None or a task of an earlier run), and so do the identities of
\* JobRequests.
RunnerRun(jobOptions) ==
  /\ runnerPc = "idle"
  /\ lastChangeId <= MaxStartChangeId
  /\ LET S0 == [Cur EXCEPT !.jobs = <<>>, !.tasks = <<>>, !.committed = <<>>,
                           !.attributeManager = 0, !.njr = 0,
                           !.runResult = "unset"]
         S1 == createJob(S0, jobOptions)
         frame == [kind |-> "job", job |-> 1, id |-> 1, depth |-> 0,
                   pc |-> "plan", change |-> <<>>]
     IN  IF DirtyGate(Cur, jobOptions)
         THEN Set([Cur EXCEPT !.runResult = None])
         ELSE IF createJobRaises(jobOptions)
         THEN Set([Cur EXCEPT !.runResult = "UnfurlError"])
         ELSE Set([S1 EXCEPT !.currentJob = 1, !.runnerPc = "running",
                             !.stack = <<frame>>])

\* Files of a repository of the manifest are edited or committed outside the
\* engine, between two calls of Runner.run.
RepoChange ==
  /\ runnerPc = "idle"
  /\ repoDirty' = ~repoDirty
  /\ UNCHANGED <<lastChangeId, currentJob, runnerPc, committed, jobs, tasks,
                 instances, attributeManager, njr, stack, runResult, call>>

\* A job that runs its tasks whatever planOnly says.
planOnlyIgnored(opts) == FALSE

\* if self.jobOptions.planOnly (job.py:432).
planOnly(opts) == opts.planOnly

\* One planner request through Job.getCandidateTasks (job.py:370-408) and,
\* when it yields a task, the body of the loop of Job.run (job.py:426-446).
PlanNext(req) ==
  /\ stack # <<>>
  /\ Last(stack).kind = "job"
  /\ Last(stack).pc = "plan"
  /\ jobs[Last(stack).id].emitted < MaxRequests
  /\ req \in PlanRequests(Cur)
  /\ LET j == Last(stack).id
         S0 == [Cur EXCEPT !.jobs[j].emitted = @ + 1]
         opts == S0.jobs[j].jobOptions
         E1 == ConfigTask(S0, j, req.configSpec, req.target, 0, None)
         E2 == UnfurlTaskError(E1, Len(E1.tasks), req.configSpec.className)
         filterReason == filterConfig(opts, req.configSpec, req.target)
         S1 == IF req.error THEN E2
               ELSE createTask(S0, j, req.configSpec, req.target, 0, None)
         t == Len(S1.tasks)
         a == addWork(S1, t)
         r == shouldRunTask(a.S, t)
         c == cantRunTask(r.S, t)
         f == finished(c.S, t,
                IF c.canRun
                THEN ConfiguratorResult("True", "True", "ok", None, None, None)
                ELSE ConfiguratorResult("False", "False", None, None, None,
                                        None))
     IN  IF ~req.error /\ filterReason = "AttributeError"
         THEN Set(Raise(S0))
         ELSE IF ~req.error /\ filterReason # None
         THEN Set(S0)
         ELSE IF a.raised THEN Set(Raise(a.S))
         ELSE IF ~r.run THEN Set(r.S)
         ELSE IF planOnly(opts)
         THEN IF f.raised THEN Set(Raise(f.S))
              ELSE Set(Deliver(f.S, TaskValue(t)))
         ELSE Set(runTask(r.S, j, t, 0))

\* The planner stream ends: StopIteration leaves the loop of Job.run
\* (job.py:447-448).
PlanStop ==
  /\ stack # <<>>
  /\ Last(stack).kind = "job"
  /\ Last(stack).pc = "plan"
  /\ stack' = [stack EXCEPT ![Len(stack)].pc = "drain"]
  /\ UNCHANGED <<lastChangeId, currentJob, runnerPc, committed, jobs, tasks,
                 instances, attributeManager, njr, repoDirty, runResult,
                 call>>

\* One turn of the loop of Job.runTask (job.py:662-690): the generator is
\* resumed with `change` and what it produced is handled.
TaskSend ==
  /\ stack # <<>>
  /\ Last(stack).kind = "task"
  /\ \E s \in send(Cur, Last(stack).id, Last(stack).change) :
       Set(Dispatch(s.S, s.value))

\* The loop that drains jobRequestQueue and the return of Job.run
\* (job.py:452-477).
JobRunDrain ==
  /\ stack # <<>>
  /\ Last(stack).kind = "job"
  /\ Last(stack).pc \in {"drain", "return"}
  /\ LET j == Last(stack).id
     IN  IF Last(stack).pc = "return" \/ jobs[j].jobRequestQueue = <<>>
         THEN Set(ReturnJob(Cur, j))
         ELSE Set(runJobRequest(Cur, j, jobs[j].jobRequestQueue[1], 0))

\* An except clause that lets the exception go on: the job is neither marked
\* nor committed and the call raises.
RunnerExceptReraise ==
  /\ runnerPc = "except"
  /\ Set([Cur EXCEPT !.currentJob = 0,
                     !.runnerPc = "idle",
                     !.runResult = "Exception"])

\* The except clause of Runner.run and what follows it (job.py:751-760).
RunnerExcept ==
  /\ runnerPc = "except"
  /\ Set([Cur EXCEPT !.jobs[1].localStatus = "error",
                     !.jobs[1].unexpectedAbort = TRUE,
                     !.currentJob = 0,
                     !.committed = Append(@, 1),
                     !.runnerPc = "idle",
                     !.runResult = "job"])

Next ==
  \/ \E jobOptions \in RootOptions : RunnerRun(jobOptions)
  \/ \E req \in PlanRequests(Cur) : PlanNext(req)
  \/ PlanStop
  \/ TaskSend
  \/ JobRunDrain
  \/ RunnerExcept
  \/ RepoChange

Spec == Init /\ [][Next]_vars

\* ------------------------------------------------------------- properties

TaskIds == 1..Len(tasks)
JobIds == 1..Len(jobs)

\* finished() has been applied to the task.
Finalized(t) == tasks[t].nfinished > 0

\* A step that begins a new Runner.run (the jobs and tasks start again).
NewRun == runnerPc = "idle" /\ runnerPc' = "running"

\* The change-ids held by jobs and by finalized tasks are those issued so
\* far: no two of them are equal and none is ahead of lastChangeId.
C1_Issued ==
  LET finalized == {t \in TaskIds : Finalized(t)}
  IN  /\ \A j \in JobIds :
           jobs[j].changeId >= 1 /\ jobs[j].changeId <= lastChangeId
      /\ \A t \in TaskIds : tasks[t].changeId <= lastChangeId
      /\ \A j1, j2 \in JobIds : j1 # j2 => jobs[j1].changeId # jobs[j2].changeId
      /\ \A t1, t2 \in finalized :
           t1 # t2 => tasks[t1].changeId # tasks[t2].changeId
      /\ \A t \in finalized, j \in JobIds :
           tasks[t].changeId # jobs[j].changeId

\* The calls of finished() a step makes on the tasks of ts, given the calls
\* made on each task before the step.
RECURSIVE FinishedCalls(_, _)
FinishedCalls(ts, before) ==
  IF ts = {} THEN 0
  ELSE LET t == CHOOSE x \in ts : TRUE
       IN  (tasks'[t].nfinished - before[t]) + FinishedCalls(ts \ {t}, before)

\* Every step raises lastChangeId by one per job created and per task
\* finalized in it, and each of them holds the new value.
C1_Step ==
  LET before == [t \in 1..Len(tasks') |->
                   IF ~NewRun /\ t <= Len(tasks) THEN tasks[t].nfinished ELSE 0]
      changed == {t \in 1..Len(tasks') : tasks'[t].nfinished # before[t]}
      created == IF NewRun THEN Len(jobs') ELSE Len(jobs') - Len(jobs)
      calls == created + FinishedCalls(changed, before)
  IN  /\ lastChangeId' = lastChangeId + calls
      /\ lastChangeId' >= lastChangeId
      /\ \A j \in 1..Len(jobs') :
           (NewRun \/ j > Len(jobs)) => jobs'[j].changeId = lastChangeId'
      /\ \A t \in changed : tasks'[t].changeId = lastChangeId'

\* C1: Runner.incrementChangeId raises lastChangeId by exactly 1 on every
\* call and returns the new value, so over any sequence of job creations
\* and task finalizations of one Runner lastChangeId never decreases and no
\* change-id is issued twice.
C1_ChangeIdsMonotonic == [](C1_Issued) /\ [][C1_Step]_vars

\* A child job was created and a task finalized after the root job: three
\* change-ids have been issued in one run.
C1_Witness ==
  /\ Len(jobs) >= 2
  /\ \E t \in TaskIds : Finalized(t)
  /\ lastChangeId >= 3

\* The tasks a job created.
TasksOf(j) == {t \in TaskIds : tasks[t].job = j}

\* The tasks listed in a job's workDone.
WorkDoneTasks(j) == {jobs[j].workDone[i].task : i \in 1..Len(jobs[j].workDone)}

\* C2 as stated: for every entry t of the workDone of a job whose Job.run
\* has returned, t.changeId is strictly greater than t.job.changeId.
C2_EveryTaskAboveJob ==
  \A j \in JobIds :
    jobs[j].returned =>
      \A t \in WorkDoneTasks(j) : tasks[t].changeId > jobs[tasks[t].job].changeId

\* C2 amended: a task to which finished() has been applied has a changeId
\* strictly greater than its job's changeId; a task that was not finalized
\* (one the job did not run) keeps the changeId of its job, also after
\* Job.run has returned.
C2_FinalizedTaskAboveJob ==
  \A t \in TaskIds :
    /\ Finalized(t) => tasks[t].changeId > jobs[tasks[t].job].changeId
    /\ ~Finalized(t) => tasks[t].changeId = jobs[tasks[t].job].changeId

\* A job has returned with a task it did not run in its workDone, and a task
\* has been finalized.
C2_Witness ==
  /\ \E j \in JobIds :
       jobs[j].returned /\ \E t \in WorkDoneTasks(j) : ~Finalized(t)
  /\ \E t \in TaskIds : Finalized(t)

\* C4: when a task is finalized its changeId is strictly greater than the
\* changeId of every sub-task it spawned by yielding a TaskRequest and of
\* every child job, and each task of that child job, it spawned by yielding
\* a JobRequest.
C4_SpawnerAboveSpawned ==
  \A t \in TaskIds :
    Finalized(t) =>
      /\ \A s \in TaskIds :
           tasks[s].spawner = t => tasks[t].changeId > tasks[s].changeId
      /\ \A k \in JobIds :
           jobs[k].spawner = t =>
             /\ tasks[t].changeId > jobs[k].changeId
             /\ \A u \in TasksOf(k) : tasks[t].changeId > tasks[u].changeId

\* A task has been finalized after a child job it spawned, which created a
\* task of its own, ran to completion.
C4_Witness ==
  \E t \in TaskIds :
    /\ Finalized(t)
    /\ \E k \in JobIds : jobs[k].spawner = t /\ jobs[k].returned /\ TasksOf(k) # {}

\* C5 as stated: after Job.run no task the job created is missing from its
\* workDone or overwritten in it, so the entries of workDone are as many as
\* the tasks created.
C5_WorkDoneComplete ==
  \A j \in JobIds :
    jobs[j].returned =>
      /\ TasksOf(j) \subseteq WorkDoneTasks(j)
      /\ Len(jobs[j].workDone) >= Cardinality(TasksOf(j))

GeneratorFailed(t) ==
  \/ SeqContains(tasks[t].errors, "configurator.run failed")
  \/ SeqContains(tasks[t].errors, "unexpected result from configurator")

\* C7 as stated: when a generator raises or yields an unknown value the
\* failure does not leave runTask: the task is finalized as failed, its
\* target's localStatus becomes error and the job goes on.
C7_FailureContained ==
  \A t \in TaskIds :
    GeneratorFailed(t) =>
      /\ runnerPc # "except"
      /\ ~jobs[1].unexpectedAbort
      /\ instances[tasks[t].target].localStatus = "error"

\* C8 as stated: runTask is never entered deeper than MAX_NESTED_SUBTASKS,
\* and the task whose TaskRequest is refused with "too many subtasks" goes
\* on: it is not finalized by the refusal and its generator can still
\* deliver its own result.
C8_ParentContinues ==
  /\ \A i \in 1..Len(stack) : stack[i].depth <= MAX_NESTED_SUBTASKS
  /\ \A t \in TaskIds :
       SeqContains(tasks[t].errors, "too many subtasks spawned") =>
         ~Finalized(t) /\ tasks[t].generator = "live"

\* C10: a generator that yielded a JobRequest is resumed only with the child
\* job made for that request, after that job's run has returned; the child's
\* parentJob is the current job and its options are repair = none,
\* all = true, instances = the names of the request's instances.  While the
\* child job runs, the task that yielded the request waits right below it.
C10_ChildJobBeforeResume ==
  /\ \A i \in 1..Len(stack) :
       stack[i].kind = "task" /\ stack[i].change # <<>> /\
       stack[i].change[1].kind = "job" =>
         LET k == stack[i].change[1].id
         IN  /\ jobs[k].returned
             /\ jobs[k].spawner = stack[i].id
             /\ jobs[k].parentJob = stack[i].job
             /\ jobs[k].jobOptions.repair = "none"
             /\ jobs[k].jobOptions.all
             /\ jobs[k].jobOptions.instances = jobs[k].request.instances
  /\ \A i \in 2..Len(stack) :
       stack[i].kind = "job" /\ stack[i - 1].kind = "task" =>
         /\ ~jobs[stack[i].id].returned
         /\ jobs[stack[i].id].spawner = stack[i - 1].id
         /\ jobs[stack[i].id].parentJob = stack[i - 1].job
         /\ jobs[stack[i].id].jobOptions.repair = "none"
         /\ jobs[stack[i].id].jobOptions.all
         /\ jobs[stack[i].id].jobOptions.instances =
              jobs[stack[i].id].request.instances
         /\ jobs[stack[i].id].request.instances # <<>>
         /\ stack[i - 1].change = <<>>

\* The generator of a task that yielded a JobRequest is about to be resumed
\* with the child job, which has run to completion.
C10_Witness ==
  \E i \in 1..Len(stack) :
    /\ i = Len(stack)
    /\ stack[i].kind = "task"
    /\ stack[i].change # <<>>
    /\ stack[i].change[1].kind = "job"
    /\ jobs[stack[i].change[1].id].returned

\* The child jobs made for JobRequests.
ChildJobs == {k \in JobIds : jobs[k].request.id # 0}

\* C11 as stated: a JobRequest that updateResources queued and the
\* configurator did not yield is run as a child job only once the planner
\* stream of its job is exhausted; a yielded one is run inline and not again;
\* every queued JobRequest is run exactly once, so none is left in a
\* jobRequestQueue when the run is over, and the queue of a job whose
\* Job.run returned is empty.
C11_QueuedRunOnce ==
  /\ \A i \in 2..Len(stack) :
       stack[i].kind = "job" /\ jobs[stack[i].id].spawner = 0 =>
         stack[i - 1].kind = "job" /\ stack[i - 1].pc = "drain"
  /\ \A k1, k2 \in ChildJobs :
       jobs[k1].request.id = jobs[k2].request.id => k1 = k2
  /\ \A j \in JobIds : jobs[j].returned => jobs[j].jobRequestQueue = <<>>
  /\ runResult = "job" => \A j \in JobIds : jobs[j].jobRequestQueue = <<>>

\* C12 as stated: in a job's workDone every task of a child job is listed
\* after all the tasks of the job itself.
C12_ChildTasksLast ==
  \A j \in JobIds :
    LET wd == jobs[j].workDone
    IN  \A p, q \in 1..Len(wd) :
          p < q => ~(tasks[wd[p].task].job # j /\ tasks[wd[q].task].job = j)

\* The tasks a job's planner requests produced, in emission order: a task
\* made for a TaskRequest that a generator yielded has a spawner.
PlannerTasks(j) == {t \in TasksOf(j) : tasks[t].spawner = 0}

\* C13 as stated: the tasks made from planner requests appear in workDone in
\* emission order: of two such tasks of a job, the one emitted first is
\* listed before the other.
C13_EmissionOrder ==
  \A j \in JobIds :
    LET wd == jobs[j].workDone
    IN  \A t1, t2 \in PlannerTasks(j) :
          t1 < t2 =>
            \E p, q \in 1..Len(wd) :
              p < q /\ wd[p].task = t1 /\ wd[q].task = t2

\* C14: when Job.run raises, Runner.run does not raise: it returns the job
\* with localStatus error and unexpectedAbort set, resets currentJob to
\* None and has called manifest.commitJob exactly once, for that job.  The
\* only exception a call of Runner.run ends with is the UnfurlError of
\* createJob, raised before Job.run is called.
C14_AbortedJobCommitted ==
  /\ [](runResult \in {"unset", "job", None, "UnfurlError"})
  /\ [][runnerPc = "except" =>
          /\ runnerPc' = "idle"
          /\ runResult' = "job"
          /\ jobs'[1].localStatus = "error"
          /\ jobs'[1].unexpectedAbort
          /\ currentJob' = 0
          /\ committed = <<>>
          /\ committed' = <<1>>]_vars

\* Job.run raised, and Runner.run has returned the job.
C14_Witness ==
  /\ runnerPc = "idle"
  /\ runResult = "job"
  /\ jobs # <<>>
  /\ jobs[1].unexpectedAbort
  /\ ~jobs[1].returned

\* C15: a call of Runner.run with commit true and dirty false (as in every
\* call here) while a repository is dirty returns None without creating a
\* job: lastChangeId is unchanged, currentJob stays None, no job or task is
\* created or run and commitJob is not called.
C15_DirtyRepoNoJob ==
  [][runnerPc = "idle" /\ repoDirty /\ repoDirty' =>
       /\ runResult' = None
       /\ currentJob = 0
       /\ UNCHANGED <<lastChangeId, currentJob, runnerPc, committed, jobs,
                      tasks, instances, attributeManager, njr, stack>>]_vars

\* Runner.run was called while a repository was dirty and has returned None.
C15_Witness == runnerPc = "idle" /\ repoDirty /\ runResult = None

\* C16 as stated: when createJob fails with an UnfurlError (an unknown
\* workflow) Runner.run returns None instead of raising, and no job is run
\* or committed.
C16_CreateJobFailureReturnsNone ==
  /\ [](runResult # "UnfurlError")
  /\ [][runnerPc = "idle" /\ runnerPc' = "idle" /\ runResult' # runResult =>
          runResult' = None /\ UNCHANGED <<jobs, tasks, committed>>]_vars

\* C17 as stated: in a job with JobOptions.readonly no task whose
\* configSpec.workflow is not "discover" is created, added to workDone or
\* run.  (The tasks that record a planner error are left aside: their
\* configSpec is a placeholder.)
C17_ReadonlyOnlyDiscover ==
  \A t \in TaskIds :
    jobs[tasks[t].job].jobOptions.readonly
      /\ tasks[t].configSpec.className \in Classes =>
        tasks[t].configSpec.workflow = "discover"

\* C18: in a job with planOnly no generator is ever started or resumed (no
\* runTask activation exists and no task has a generator or was sent
\* anything), no task records a snapshot of attribute changes, and
\* jobRequestQueue stays empty.
C18_PlanOnlyNoGenerator ==
  \A j \in JobIds :
    jobs[j].jobOptions.planOnly =>
      /\ jobs[j].jobRequestQueue = <<>>
      /\ \A i \in 1..Len(stack) : stack[i].job = j => stack[i].kind = "job"
      /\ \A t \in TasksOf(j) :
           /\ tasks[t].generator = None
           /\ tasks[t].sent = 0
           /\ tasks[t].changeList = <<>>

\* A planOnly job has finalized a task.
C18_Witness ==
  \E t \in TaskIds : Finalized(t) /\ jobs[tasks[t].job].jobOptions.planOnly

\* C19 as stated: in a job with planOnly a task that passed shouldRunTask is
\* finalized as a success when cantRunTask reports no reason (its result is
\* a success, task.localStatus is ok and its target's localStatus is ok)
\* and as a failure when cantRunTask reports a reason.
C19_PlanOnlySynthesized ==
  \A t \in TaskIds :
    jobs[tasks[t].job].jobOptions.planOnly /\ Finalized(t) =>
      /\ tasks[t].result # <<>>
      /\ IF cantRunTask(Cur, t).canRun
         THEN /\ Truthy(tasks[t].result[1].success)
              /\ tasks[t].localStatus = "ok"
              /\ instances[tasks[t].target].localStatus = "ok"
         ELSE /\ ~Truthy(tasks[t].result[1].success)
              /\ tasks[t].localStatus = "error"

\* C20 as stated: in a dry run, a task whose configurator's canDryRun answers
\* False never has its generator started and is finalized with a failed
\* result whose reason is "dry run not supported"; its target's localStatus
\* stays unknown and the status of the job is ok.
C20_DryRunNotSupported ==
  \A t \in TaskIds :
    Finalized(t) /\ cantRunTask(Cur, t).reason = "dry run not supported" =>
      /\ tasks[t].sent = 0
      /\ instances[tasks[t].target].localStatus = "unknown"
      /\ tasks[t].result # <<>>
      /\ ~Truthy(tasks[t].result[1].success)
      /\ tasks[t].result[1].result = "dry run not supported"
      /\ jobs[tasks[t].job].localStatus = "ok"
      /\ ~jobs[tasks[t].job].unexpectedAbort

\* ------------------------------------------------- finalization of a task

\* The tasks finished() was applied to in this step.
FinishedNow ==
  {t \in TaskIds' :
     tasks'[t].nfinished >
       (IF t \in TaskIds /\ ~NewRun THEN tasks[t].nfinished ELSE 0)}

\* The status C21 gives the target after finished(result): old is the
\* status before the call.
C21_Expected(task, result, old) ==
  IF result.readyState # None THEN result.readyState
  ELSE IF ~Truthy(result.success)
  THEN IF Truthy(result.modified)
       THEN IF TaskRequired(task) THEN "error" ELSE "degraded"
       ELSE IF result.modified = None THEN "unknown"
       ELSE old
  ELSE old

\* C21: in a step that applies finished(result) to a task, the localStatus
\* of the task's target becomes the status the result carries; without one
\* and without success it becomes error (required task) or degraded when
\* modified is true, unknown when modified is None, and is unchanged when
\* modified is false; with success and no status it is unchanged.
C21_StatusFromResult ==
  [][\A t \in FinishedNow :
       LET task == tasks'[t]
       IN  task.target \in DOMAIN instances
           => instances'[task.target].localStatus =
                C21_Expected(task, task.final[1],
                             instances[task.target].localStatus)]_vars

\* C22: an instance a task has been finalized against has a
\* _lastConfigChange, at every later state of the job.
C22_LastConfigChangeSet ==
  \A t \in TaskIds :
    Finalized(t) => instances[tasks[t].target].lastConfigChange # 0

\* C23: in a step that applies finished(result) to a task, the target's
\* _lastStateChange becomes the task's final change-id when the result is
\* modified or attribute changes were recorded for the target, and is
\* unchanged otherwise.
C23_LastStateChange ==
  [][\A t \in FinishedNow :
       LET task == tasks'[t]
       IN  task.target \in DOMAIN instances
           => IF Truthy(task.final[1].modified)
                 \/ getAttributeChanges(task, task.target) # {}
              THEN instances'[task.target].lastStateChange = task.changeId
              ELSE instances'[task.target].lastStateChange =
                     instances[task.target].lastStateChange]_vars

\* ------------------------------------------------------ attribute changes

\* The snapshots the first n steps of a task's generator leave.
StepSnapshots(task, n) == [i \in 1..n |-> StepWrites(task.target, i)]

\* The task whose generator the next step resumes.
Sending == stack # <<>> /\ Last(stack).kind = "task"

\* At every state no task has staged changes, and a task that is not
\* finalized holds one snapshot for each step of its generator, in order.
C24_Committed ==
  \A t \in TaskIds :
    /\ tasks[t].staged = EmptyChanges
    /\ ~Finalized(t)
         => tasks[t].changeList = StepSnapshots(tasks[t], tasks[t].sent)

\* A step that resumes a task's generator appends exactly one snapshot, the
\* writes of that step, to the task's change list; when the step also
\* finalizes the task (the generator raised or yielded its result), what is
\* recorded is the merge of the earlier snapshots and the new one.
C24_Step ==
  Sending =>
    LET t == Last(stack).id
        snap == StepWrites(tasks[t].target, tasks[t].sent + 1)
        all == Append(tasks[t].changeList, snap)
    IN  /\ tasks'[t].sent = tasks[t].sent + 1
        /\ IF tasks'[t].nfinished = tasks[t].nfinished
           THEN tasks'[t].changeList = all
           ELSE /\ tasks'[t].changeList = <<>>
                /\ tasks'[t].recorded # <<>>
                /\ tasks'[t].recorded[1].changes = MergeChangeList(all)

\* C24: after every ConfigTask.send, whether the generator yielded or
\* raised, the staging area is empty and exactly one new snapshot has been
\* appended to the task's changeList; the writes of earlier steps stay as
\* the earlier snapshots.
C24_SnapshotPerSend == [](C24_Committed) /\ [][C24_Step]_vars

\* The cumulative change of a list of snapshots: every key some snapshot
\* wrote, with the value of the last snapshot that wrote it.
LaterWins(snapshots) ==
  LET keys == UNION {DOMAIN snapshots[i] : i \in 1..Len(snapshots)}
      last(k) == CHOOSE i \in 1..Len(snapshots) :
                   /\ k \in DOMAIN snapshots[i]
                   /\ \A n \in (i + 1)..Len(snapshots) :
                        k \notin DOMAIN snapshots[n]
  IN  [k \in keys |-> snapshots[last(k)][k]]

\* A step that finalizes a task with a non-empty change list merges the
\* snapshots the task had committed, in their order, the step's own
\* snapshot last.
C25_Step ==
  \A t \in FinishedNow :
    tasks'[t].merged # <<>> /\ t \in TaskIds
      => /\ Len(tasks'[t].merged) >= Len(tasks[t].changeList)
         /\ SubSeq(tasks'[t].merged, 1, Len(tasks[t].changeList))
              = tasks[t].changeList

\* What is recorded for a finalized task is the cumulative change of its
\* snapshots, under the change-id finished() assigned, which is above the
\* provisional one.
C25_Recorded ==
  \A t \in TaskIds :
    /\ tasks[t].merged # <<>> <=> tasks[t].recorded # <<>>
    /\ tasks[t].recorded # <<>>
         => /\ Finalized(t)
            /\ tasks[t].recorded[1].changes = LaterWins(tasks[t].merged)
            /\ tasks[t].recorded[1].changeId = tasks[t].changeId
            /\ tasks[t].recorded[1].changeId > tasks[t].parentId

\* C25: at finalization the snapshots of the task's changeList are merged
\* in the order they were committed, a later snapshot's value for an
\* (instance, attribute) key overriding an earlier one, and the cumulative
\* change is recorded against the change-id assigned in finished(), not the
\* provisional one.
C25_MergedInOrder == [](C25_Recorded) /\ [][C25_Step]_vars

\* A finalized task whose two snapshots wrote the same attribute with
\* different values; the later value is the one recorded.
C25_Witness ==
  \E t \in TaskIds :
    /\ Finalized(t)
    /\ Len(tasks[t].merged) = 2
    /\ \E k \in DOMAIN tasks[t].merged[1] \cap DOMAIN tasks[t].merged[2] :
         /\ tasks[t].merged[1][k] # tasks[t].merged[2][k]
         /\ tasks[t].recorded[1].changes[k] = tasks[t].merged[2][k]

\* ------------------------------------------------------------ live range

\* The task is between start() and finished(): start() bound its generator
\* (job.py:163-164) and finished() has not closed it (job.py:202-204).
Live(t) == tasks[t].generator = "live"

ErrorTask(t) == SeqContains(tasks[t].errors, tasks[t].configSpec.className)

PyValue(kind, str, changed, items) ==
  [kind |-> kind, str |-> str, changed |-> changed, items |-> items]
PyNone == PyValue("none", "", FALSE, <<>>)
PyStr(str) == PyValue("str", str, FALSE, <<>>)
PyChangeAware(changed) == PyValue("aware", "", changed, <<>>)
PyMapping(items) == PyValue("map", "", FALSE, items)
PyList(items) == PyValue("seq", "", FALSE, items)

\* bool(value)
PyTruthy(value) ==
  CASE value.kind = "none" -> FALSE
    [] value.kind = "str" -> value.str # ""
    [] value.kind \in {"map", "seq"} -> value.items # <<>>
    [] OTHER -> TRUE

\* The values found in the instance graph.
GraphValues ==
  {PyStr("x"), PyStr("y"), PyChangeAware(FALSE),
   PyMapping(<<PyChangeAware(TRUE)>>)}

\* What an expression matches in the instance graph: a list of values.
Matches == UNION {[1..n -> GraphValues] : n \in 0..MaxMatches}

\* Ref(expr).resolve(context, wantList) (eval.py): the list of the matches
\* when a list is wanted; else None for no match, the value for one match
\* and the list for more.
resolve(matches, wantList) ==
  IF wantList THEN PyList(matches)
  ELSE IF Len(matches) = 0 THEN PyNone
  ELSE IF Len(matches) = 1 THEN matches[1]
  ELSE PyList(matches)

\* Ref(expr).resolveOne(context) (eval.py)
resolveOne(matches) == resolve(matches, FALSE)

\* mapValue(value, context) (eval.py) of a value that holds no expression.
mapValue(value) == value

\* Dependency.__init__ (configurator.py:602-623), which asserts
\* not (expected and schema).
Dependency(expr, expected, schema, wantList) ==
  [expr |-> expr, expected |-> expected, schema |-> schema, name |-> None,
   required |-> FALSE, wantList |-> wantList]

\* Dependency.refresh (configurator.py:625-632)
refresh(self, matches) ==
  IF self.expected # PyNone
  THEN [self EXCEPT !.expected = resolve(matches, self.wantList)]
  ELSE self

\* Dependency.hasValueChanged (configurator.py:634-647); a Results object is
\* walked as the mapping of its attributes.
RECURSIVE hasValueChanged(_)
hasValueChanged(value) ==
  CASE value.kind \in {"map", "seq"} ->
         \E i \in 1..Len(value.items) : hasValueChanged(value.items[i])
    [] value.kind = "aware" -> value.changed
    [] OTHER -> FALSE

\* Dependency.hasChanged (configurator.py:649-671); valid is the answer of
\* validateSchema(result, self.schema).
hasChanged(self, matches, valid) ==
  LET result == resolveOne(matches)
  IN  IF self.schema # None
      THEN IF ~valid THEN FALSE ELSE hasValueChanged(result)
      ELSE IF self.expected # PyNone
      THEN IF result # mapValue(self.expected) THEN TRUE
           ELSE hasValueChanged(result)
      ELSE IF ~PyTruthy(result) THEN TRUE
      ELSE hasValueChanged(result)

\* The dependencies a configurator registers: one with an expected value,
\* one with a schema, or one with neither.
Dependencies ==
  {Dependency("expr", e, None, w) :
     e \in {PyNone, PyStr("x"), PyList(<<PyStr("x")>>)}, w \in BOOLEAN}
  \cup {Dependency("expr", PyNone, "schema", w) : w \in BOOLEAN}

\* -------------------------------------------------------- ConfigurationSpec

\* The attributes of a ConfigurationSpec other than its environment
\* (configurator.py:121-133) and those of an Environment
\* (configurator.py:75-83).
SpecFields ==
  {"name", "operation", "className", "majorVersion", "minorVersion",
   "workflow", "timeout", "inputs", "inputSchema", "preConditions",
   "postConditions", "installer"}
EnvironmentFields == {"vars", "isolate", "passvars", "addinputs"}

\* A ConfigurationSpec all of whose attributes, and those of its
\* environment, have the value "a", but for the ones in diffs, which have
\* the value "b".
SpecWith(diffs) ==
  [f \in SpecFields \cup {"environment"} |->
     IF f = "environment"
     THEN [e \in EnvironmentFields |-> IF e \in diffs THEN "b" ELSE "a"]
     ELSE IF f \in diffs THEN "b" ELSE "a"]

\* Environment.__eq__ (configurator.py:75-83)
Environment__eq__(self, other) ==
  /\ self["vars"] = other["vars"]
  /\ self["isolate"] = other["isolate"]
  /\ self["passvars"] = other["passvars"]
  /\ self["addinputs"] = other["addinputs"]

\* ConfigurationSpec.__eq__ (configurator.py:160-177)
ConfigurationSpec__eq__(self, other) ==
  /\ self["name"] = other["name"]
  /\ self["operation"] = other["operation"]
  /\ self["className"] = other["className"]
  /\ self["majorVersion"] = other["majorVersion"]
  /\ self["minorVersion"] = other["minorVersion"]
  /\ self["workflow"] = other["workflow"]
  /\ self["timeout"] = other["timeout"]
  /\ Environment__eq__(self["environment"], other["environment"])
  /\ self["inputs"] = other["inputs"]
  /\ self["inputSchema"] = self["inputSchema"]
  /\ self["preConditions"] = other["preConditions"]
  /\ self["postConditions"] = other["postConditions"]

\* ---------------------------------------------- ConfigurationSpec.copy

\* The environment argument of ConfigurationSpec(...): None, a dict of
\* Environment's keyword arguments, or (a function over EnvironmentFields)
\* an Environment object.
EnvNone == [kind |-> "None"]
EnvDict(items) == [kind |-> "dict", items |-> items]
IsEnvironmentObject(v) == "kind" \notin DOMAIN v

\* Environment.__init__ (configurator.py:44-60) with the keyword arguments of
\* a dict: the defaults where the dict has no item.
Environment(items) ==
  LET default == [e \in EnvironmentFields |->
                    CASE e = "vars" -> "{}"
                      [] e = "passvars" -> None
                      [] OTHER -> "False"]
  IN  [e \in EnvironmentFields |->
         IF e \in DOMAIN items THEN items[e] ELSE default[e]]

\* ConfigurationSpec.__init__ (configurator.py:104-133) on keyword
\* arguments.  Environment(**(environment or {})) needs a mapping after **:
\* an Environment object, which is true and is no mapping, raises TypeError.
ConfigurationSpec__init__(args) ==
  LET env == args["environment"]
  IN  IF IsEnvironmentObject(env)
      THEN [raised |-> TRUE, spec |-> args]
      ELSE [raised |-> FALSE,
            spec |-> [args EXCEPT !["environment"] =
                        IF env.kind = "None"
                        THEN Environment([e \in {} |-> None])
                        ELSE Environment(env.items)]]

\* ConfigurationSpec.copy (configurator.py:155-158): the constructor is
\* called with the object's __dict__, updated with mods.
copy(self, mods) ==
  ConfigurationSpec__init__(
    [f \in DOMAIN self |-> IF f \in DOMAIN mods THEN mods[f] ELSE self[f]])

\* The modifications copy() is called with: none, a new value for one field,
\* or a new environment given as a dict.
NoMods == [f \in {} |-> None]
CopyMods ==
  {NoMods} \cup {[f \in {g} |-> "c"] : g \in SpecFields}
  \cup {[f \in {"environment"} |-> EnvDict([e \in {"isolate"} |-> "c"])]}

\* ------------------------------------------------- calls of the methods

\* A dependency with the matches of its expression in the graph and the
\* answer of the schema validator, or two ConfigurationSpecs.
CallInputs ==
  {[op |-> "Dependency", dep |-> d, matches |-> m, valid |-> v,
    ret |-> "unset"] : d \in Dependencies, m \in Matches, v \in BOOLEAN}
  \cup
  {[op |-> "ConfigurationSpec", a |-> SpecWith({}), b |-> SpecWith(diffs),
    ret |-> "unset"] :
     diffs \in {D \in SUBSET (SpecFields \cup EnvironmentFields) :
                  Cardinality(D) <= MaxDiffs}}
  \cup
  {[op |-> "Job", checks |-> c, ret |-> "unset"] : c \in CheckOutcomes}
  \cup
  {[op |-> "resources", specs |-> specs, ret |-> "unset"] :
     specs \in ResourceSpecs}
  \cup
  {[op |-> "TaskView", required |-> r, success |-> s, modified |-> m,
    status |-> st, ret |-> "unset"] :
     r \in BOOLEAN, s \in {"True", "False"},
     m \in {"True", "False", None} \cup Status, st \in {None} \cup Status}

MethodsInit == RunnerInit /\ call \in CallInputs

RunnerUnchanged ==
  UNCHANGED <<lastChangeId, currentJob, runnerPc, committed, jobs, tasks,
              instances, attributeManager, njr, stack, repoDirty, runResult>>

\* dependency.refresh(task)
DependencyRefresh ==
  /\ call.op = "Dependency"
  /\ call' = [call EXCEPT !.op = "refresh",
                          !.dep = refresh(call.dep, call.matches)]
  /\ RunnerUnchanged

\* dependency.hasChanged(task), on a new dependency or right after refresh;
\* the instance graph is the same.
DependencyHasChanged ==
  /\ call.op \in {"Dependency", "refresh"}
  /\ call' = [call EXCEPT
                !.op = IF call.op = "refresh" THEN "refresh; hasChanged"
                       ELSE "hasChanged",
                !.ret = hasChanged(call.dep, call.matches, call.valid)]
  /\ RunnerUnchanged

\* a.copy(**mods)
ConfigurationSpecCopy ==
  /\ call.op = "ConfigurationSpec"
  /\ \E mods \in CopyMods :
       call' = [op |-> "copy", a |-> call.a, b |-> call.b, mods |-> mods,
                ret |-> copy(call.b, mods)]
  /\ RunnerUnchanged

\* a == b
ConfigurationSpecEq ==
  /\ call.op = "ConfigurationSpec"
  /\ call' = [call EXCEPT !.op = "__eq__",
                          !.ret = ConfigurationSpec__eq__(call.a, call.b)]
  /\ RunnerUnchanged

\* job.cantRunTask(task)
JobCantRunTask ==
  /\ call.op = "Job"
  /\ call' = [call EXCEPT !.op = "cantRunTask",
                          !.ret = cantRunTaskChecks(call.checks)]
  /\ RunnerUnchanged

\* task.done(success, modified, status)
TaskViewDone ==
  /\ call.op = "TaskView"
  /\ call' = [call EXCEPT !.op = "done",
                          !.ret = done(call.required, call.success,
                                       call.modified, call.status)]
  /\ RunnerUnchanged

\* task.updateResources(specs), by a task of a job whose queue is empty, on
\* a graph of one instance.
TaskViewUpdateResources ==
  /\ call.op = "resources"
  /\ LET loaded == loadResources(call.specs, 1)
     IN  call' = [call EXCEPT !.op = "updateResources",
                              !.ret = [loaded |-> loaded,
                                       end |-> jobRequestFor(loaded, 1, <<>>)]]
  /\ RunnerUnchanged

MethodsNext ==
  \/ DependencyRefresh
  \/ DependencyHasChanged
  \/ ConfigurationSpecEq
  \/ ConfigurationSpecCopy
  \/ JobCantRunTask
  \/ TaskViewDone
  \/ TaskViewUpdateResources

Methods == MethodsInit /\ [][MethodsNext]_vars

\* The change test of a dependency as C28 states it.
C28_ChangeTest(self, matches, valid) ==
  LET result == resolveOne(matches)
  IN  IF self.schema # None THEN ~valid
      ELSE IF self.expected # PyNone /\ result # self.expected THEN TRUE
      ELSE IF self.expected = PyNone /\ ~PyTruthy(result) THEN TRUE
      ELSE hasValueChanged(result)

\* C28: Dependency.hasChanged returns the ordered change test: with a
\* schema, true exactly when the result fails validation; else with an
\* expected value, true when the result differs from it; else true when the
\* result is empty; in the remaining cases true exactly when a value nested
\* in the result reports hasChanged.
C28_HasChangedIsChangeTest ==
  call.op = "hasChanged"
    => call.ret = C28_ChangeTest(call.dep, call.matches, call.valid)

\* C29: hasChanged called right after refresh, the instance graph being the
\* same, returns false, whether wantList is true or false.
C29_RefreshThenUnchanged ==
  call.op = "refresh; hasChanged" => call.ret = FALSE

\* C30: two ConfigurationSpecs compare equal if and only if they agree on
\* every field, the installer among them.
C30_EqualIffAllFieldsAgree ==
  call.op = "__eq__" => (call.ret <=> call.a = call.b)

\* C31: s.copy() with no modifications returns a spec equal to s, and
\* s.copy(field=v) returns a spec that differs from s in that field only.
C31_CopyEqualButForMods ==
  call.op = "copy"
    => /\ ~call.ret.raised
       /\ \A f \in SpecFields \cup {"environment"} :
            f \notin DOMAIN call.mods => call.ret.spec[f] = call.b[f]
       /\ \A f \in SpecFields :
            f \in DOMAIN call.mods => call.ret.spec[f] = call.mods[f]
       /\ call.mods = NoMods => ConfigurationSpec__eq__(call.ret.spec, call.b)

\* ------------------------------------------------------ a successful run

\* Runner.run has returned a job all of whose tasks were finalized with a
\* successful result.
AllTasksSucceeded ==
  /\ runnerPc = "idle" /\ runResult = "job" /\ jobs # <<>>
  /\ tasks # <<>>
  /\ \A t \in TaskIds :
       Finalized(t) /\ tasks[t].final[1].success = "True"

\* The run of the test: the manifest's lastChangeId was 0 and the only task
\* yielded (success, modified, status ok) in its first step, with no child
\* job.
SingleTaskRun ==
  /\ AllTasksSucceeded
  /\ Len(jobs) = 1 /\ jobs[1].changeId = 1
  /\ Len(tasks) = 1 /\ tasks[1].sent = 1
  /\ tasks[1].final[1].modified = "True"
  /\ tasks[1].final[1].readyState = "ok"

\* C32: a job whose tasks all yield successful results ends without
\* unexpectedAbort; after the single-task run of the test the target's
\* localStatus is ok, workDone holds exactly one task, the job's changeId
\* is 1 and the task's changeId is 2.
C32_SuccessfulRunEndsOk ==
  /\ AllTasksSucceeded => ~jobs[1].unexpectedAbort
  /\ SingleTaskRun
       => /\ instances[tasks[1].target].localStatus = "ok"
          /\ Len(jobs[1].workDone) = 1
          /\ tasks[1].changeId = 2

\* The checks of cantRunTask in the order C33 gives them, each with its
\* outcome ("pass", "fail" or "raise") and the reason it gives on failure.
C33_Checks(c) ==
  << [outcome |-> IF c.errors THEN "fail" ELSE "pass",
      reason |-> "could not create task"],
     [outcome |-> IF ~c.dryRun \/ c.canDryRun = "True" THEN "pass"
                  ELSE IF c.canDryRun = "False" THEN "fail" ELSE "raise",
      reason |-> "dry run not supported"],
     [outcome |-> IF c.missing = "none" THEN "pass"
                  ELSE IF c.missing = "some" THEN "fail" ELSE "raise",
      reason |-> "missing required dependencies"],
     [outcome |-> IF c.inputs = "valid" THEN "pass" ELSE "fail",
      reason |-> "invalid inputs"],
     [outcome |-> IF c.preconditions = "valid" THEN "pass" ELSE "fail",
      reason |-> "invalid preconditions"],
     [outcome |-> IF c.canRun = "True" THEN "pass"
                  ELSE IF c.canRun = "missing" THEN "raise" ELSE "fail",
      reason |-> "configurator declined"] >>

NotRun(task) ==
  /\ task.spawner = 0
  /\ \/ TaskPriority(task) = "ignore"
     \/ SeqContains(task.errors, "shouldRun failed unexpectedly")

\* The task has been run or finalized.
Started(task) ==
  task.generator # None \/ task.sent > 0 \/ task.nfinished > 0

\* The answer of shouldRun as a priority.
C34_Answer(c) ==
  LET answer == ClassShouldRun(c)
  IN  IF answer = "True" THEN "required"
      ELSE IF answer = "False" THEN "ignore" ELSE answer

C34_State ==
  \A t \in DOMAIN tasks :
    LET task == tasks[t]
        c == task.configSpec.className
        inWorkDone == \E i \in DOMAIN jobs[task.job].workDone :
                        jobs[task.job].workDone[i].task = t
    IN  /\ (task.spawner = 0 /\ task.configurator /\ inWorkDone) =>
             IF ClassShouldRun(c) = "raise"
             THEN NotRun(task)
             ELSE TaskPriority(task) = C34_Answer(c)
        /\ (task.spawner = 0 /\ Started(task)) =>
             PriorityRank(TaskPriority(task)) > PriorityRank("ignore")
        /\ NotRun(task) =>
             /\ inWorkDone
             /\ ~Started(task)
             /\ task.result = <<>>
             /\ task.final = <<>>
             /\ task.changeId = jobs[task.job].changeId

C34_Step ==
  (/\ Len(tasks') = Len(tasks) + 1
   /\ NotRun(tasks'[Len(tasks')]))
  => /\ instances' = instances
     /\ lastChangeId' = lastChangeId
     /\ Len(stack') = Len(stack)
     /\ Last(stack').kind = "job"
     /\ Last(stack').pc = "plan"

\* C34: a task of the planner is run only if its priority after the shouldRun
\* check is above ignore (True counts as required, False as ignore, and the
\* answer becomes the task's priority; a shouldRun that raises leaves a task
\* error).  A task that is not run stays in workDone with no result and its
\* job's change-id, is never finalized, its target's status and change
\* pointers are left alone, and the planner goes on.
C34_RunOnlyAboveIgnore == [] C34_State /\ [][C34_Step]_vars

\* What filterConfig answers for the requests the planner of a job can emit:
\* a reason to drop the request or None, the reason being that of the first
\* rule that matches.
C35_Reasons ==
  \A j \in DOMAIN jobs : \A req \in PlanRequests(Cur) :
    LET opts == jobs[j].jobOptions
        reason == filterConfig(opts, req.configSpec, req.target)
        readonly == opts.readonly /\ req.configSpec.workflow # "discover"
    IN  /\ reason \in {"read only", "required", "instance", "instances", None}
        /\ readonly => reason = "read only"
        /\ (~readonly /\ ~opts.requiredOnly) =>
             reason = IF opts.instance # 0 /\ req.target # opts.instance
                      THEN "instance"
                      ELSE IF /\ opts.instances # <<>>
                              /\ ~SeqContains(opts.instances, req.target)
                      THEN "instances"
                      ELSE None

\* A step of the planner that makes no task is a dropped request: the job
\* goes on planning and nothing else changes.
C35_Step ==
  (/\ stack # <<>>
   /\ Last(stack).kind = "job"
   /\ Last(stack).pc = "plan"
   /\ tasks' = tasks
   /\ jobs'[Last(stack).id].emitted = jobs[Last(stack).id].emitted + 1)
  => /\ stack' = stack
     /\ runnerPc' = runnerPc
     /\ lastChangeId' = lastChangeId
     /\ instances' = instances

\* A job restricted to an instance that is not in the graph has an empty
\* workDone and takes no change-id but its own.
C35_NotInGraph ==
  \A j \in DOMAIN jobs :
    jobs[j].jobOptions.instance = NotInGraph =>
      /\ jobs[j].workDone = <<>>
      /\ lastChangeId = jobs[j].changeId

\* C35: filterConfig drops a request of the planner with the reason of the
\* first matching rule in the order readonly, requiredOnly, instance,
\* instances and otherwise passes the config; a dropped request makes no task
\* and the planner goes on; a job restricted to an instance that is not in the
\* graph runs to completion with an empty workDone and no change-id consumed
\* beyond its own.
C35_FilterDropsOrPasses ==
  [] (C35_Reasons /\ C35_NotInGraph) /\ [][C35_Step]_vars

C37_Specs(specs, kind) ==
  LET pick[i \in 0..Len(specs)] ==
        IF i = 0 THEN <<>>
        ELSE IF specs[i] = kind THEN Append(pick[i - 1], i) ELSE pick[i - 1]
  IN  pick[Len(specs)]

\* C37: updateResources records each spec that fails to load as an error and
\* goes on with the remaining specs; a spec naming an existing instance
\* updates it and is no part of the JobRequest; a JobRequest holding the new
\* resources and the collected errors is made, appended to the
\* jobRequestQueue of the task's job and returned exactly when at least one
\* new resource was added.
C37_UpdateResources ==
  call.op = "updateResources" =>
    LET loaded == call.ret.loaded
        end == call.ret.end
    IN  /\ loaded.errors = C37_Specs(call.specs, "bad")
        /\ loaded.updated = C37_Specs(call.specs, "existing")
        /\ Len(loaded.newResources) = Len(C37_Specs(call.specs, "new"))
        /\ \A i \in DOMAIN loaded.newResources : loaded.newResources[i] > 1
        /\ end.returned = (C37_Specs(call.specs, "new") # <<>>)
        /\ end.jobRequestQueue =
             IF end.returned THEN <<end.jobRequest>> ELSE <<>>
        /\ end.returned =>
             /\ end.jobRequest.instances = loaded.newResources
             /\ end.jobRequest.errors = loaded.errors

\* updateResources was given a spec that fails to load, one naming an
\* existing instance and a new one, and returned a JobRequest with the error.
C37_Witness ==
  /\ call.op = "updateResources"
  /\ call.specs = <<"bad", "existing", "new">>
  /\ call.ret.end.returned
  /\ call.ret.end.jobRequest.errors = <<1>>
  /\ call.ret.end.jobRequest.instances = <<2>>

\* C38: whenever a step of a generator executes, the attribute manager of
\* the root is the task that owns the generator, also when the generator is
\* resumed after a sub-task or a child job it asked for.
C38_ManagerOwnsGenerator ==
  Sending => attributeManager = Last(stack).id

\* C39: every task created during a run whose root job was started with
\* dryrun is a dry-run task, the sub-tasks and the tasks of child jobs
\* included.
C39_DryRunInherited ==
  (jobs # <<>> /\ jobs[1].jobOptions.dryrun) =>
    \A t \in TaskIds : tasks[t].dryRun

\* Runner.run has returned or raised: no activation of Job.run or runTask is
\* left.
RunOver == runnerPc = "idle" /\ stack = <<>> /\ jobs # <<>>

\* C40: when the run has ended, every task whose generator was started has
\* been finalized (finished() was called on it), whatever its configurator
\* yielded.
C40_StartedIsFinalized ==
  RunOver => \A t \in TaskIds : (tasks[t].sent > 0 \/ Live(t)) => Finalized(t)
====
